---- MODULE Spec2Model ----
(***************************************************************************)
(* Model of the signature decorator (src/src/utils/signature-decorator.js):*)
(* its post-creation cleanup coordinator as driven by the host viewer, its *)
(* configuration merge, its curve geometry, its overlap test and its       *)
(* renderer; and of the document import of the viewer component            *)
(* (src/unnamed/part_000).  Each part has its own specification over the   *)
(* variables of the module; the variables of the other parts stay parked.  *)
(*                                                                         *)
(* Strings are sequences of tokens, so that String.prototype.includes is   *)
(* a real contiguous-subsequence search and === is sequence equality.      *)
(* The empty sequence is the empty string; like undefined/null it is       *)
(* falsy.                                                                  *)
(***************************************************************************)
EXTENDS Integers, Sequences, FiniteSets, TLC

VARIABLES
    annots,      \* host: the document's annotations, in list order (ids)
    fields,      \* host: the document's form fields, in list order (ids)
    listeners,   \* host: functions subscribed to "annotations.create"
    tornDown,    \* the function returned by initializeSignatureDecorator ran
    handler,     \* per delivered event: the async handler's batch and position
    task,        \* per created annotation: its handleSignatureCreation call
    cfg,         \* the last configuration merge: who merged what into what
    crv,         \* the last two pairs of curves built, by signature size
    ovl,         \* the last overlap test: its boxes and its answers
    rnd,         \* the renderer made by createSignatureRenderer and its
                 \* last call
    imp,         \* the viewer component's import button, pickers and imports
    eff          \* the viewer component's effect: its runs and the container

cleanup == <<annots, fields, listeners, tornDown, handler, task>>
others == <<cfg, crv, ovl, rnd, imp, eff>>
vars == <<cleanup, others>>

----------------------------------------------------------------------------
(* Bounds *)

MaxEvents == 2      \* annotations.create events the host delivers
MaxBatch == 2       \* annotations per delivered batch
MaxCreated == 2      \* annotations created over all batches

----------------------------------------------------------------------------
(* Strings *)

EmptyStr == <<>>

Truthy(s) == s # EmptyStr

\* String.prototype.includes
Includes(s, p) ==
    \E i \in 1..(Len(s) + 1) :
        /\ i + Len(p) - 1 <= Len(s)
        /\ SubSeq(s, i, i + Len(p) - 1) = p

----------------------------------------------------------------------------
(* Configuration *)

\* ratios are in hundredths (0.25 is 25); an object is a function from the
\* keys it has to their values
DEFAULT_CONFIG ==
    [curve |->
        [color |-> <<"#0078D4">>, strokeWidth |-> <<"1.5">>,
         topLengthRatio |-> 25, topLengthMax |-> 50,
         bottomLengthRatio |-> 35, bottomLengthMax |-> 70],
     text |->
        [color |-> <<"#008000">>, fontFamily |-> <<"-apple-system">>,
         fontSize |-> [top |-> 9, bottom |-> 8], gap |-> 3],
     position |->
        [svgTopOffset |-> -25, svgLeftOffset |-> -5,
         topLabelOffset |-> -27, bottomLabelOffset |-> -24],
     signatureIdentifiers |->
        [typeCode |-> <<"S">>, namePattern |-> <<"SIGNATURE">>],
     defaults |-> [signerName |-> <<"Nutrient">>],
     dateTimeFormat |->
        [year |-> <<"numeric">>, month |-> <<"2-digit">>,
         day |-> <<"2-digit">>, hour |-> <<"2-digit">>,
         minute |-> <<"2-digit">>, second |-> <<"2-digit">>,
         hour12 |-> TRUE]]

\* the settle delay of handleSignatureCreation, in ms
SettleDelay == 100

----------------------------------------------------------------------------
(* The host document: the annotations and form fields that can exist.      *)

Null == "null"

Widgets == {"w1", "w2", "w3"}
Created == {"s1", "s2", "s3", "t1", "c1"}
AnnotationIds == Widgets \cup Created
FieldIds == {"f1", "f2", "f3"}
FieldOrder == <<"f1", "f2", "f3">>

BBox(l, t, w, h) == [left |-> l, top |-> t, width |-> w, height |-> h]

\* w1 and w3 lie over the signatures, w2 touches them at one corner; t1 is
\* a text annotation flagged isSignature and c1 a widget created later
Annotation(a) ==
    CASE a = "w1" -> [kind |-> "widget", formFieldName |-> <<"Sig1">>,
                      boundingBox |-> BBox(1, 1, 2, 2), pageIndex |-> 0,
                      isSignature |-> FALSE]
      [] a = "w2" -> [kind |-> "widget",
                      formFieldName |-> <<"MY_", "SIGNATURE", "_2">>,
                      boundingBox |-> BBox(4, 2, 2, 2), pageIndex |-> 0,
                      isSignature |-> FALSE]
      [] a = "w3" -> [kind |-> "widget", formFieldName |-> <<"Text1">>,
                      boundingBox |-> BBox(0, 0, 4, 2), pageIndex |-> 0,
                      isSignature |-> FALSE]
      [] a = "s1" -> [kind |-> "ink", formFieldName |-> <<"Sig1">>,
                      boundingBox |-> BBox(0, 0, 4, 2), pageIndex |-> 0,
                      isSignature |-> FALSE]
      [] a = "s2" -> [kind |-> "image", formFieldName |-> EmptyStr,
                      boundingBox |-> BBox(0, 0, 4, 2), pageIndex |-> 0,
                      isSignature |-> FALSE]
      [] a = "s3" -> [kind |-> "ink", formFieldName |-> <<"Sig1">>,
                      boundingBox |-> BBox(0, 0, 4, 2), pageIndex |-> 1,
                      isSignature |-> FALSE]
      [] a = "t1" -> [kind |-> "other", formFieldName |-> EmptyStr,
                      boundingBox |-> BBox(0, 0, 4, 2), pageIndex |-> 0,
                      isSignature |-> TRUE]
      [] a = "c1" -> [kind |-> "widget", formFieldName |-> <<"Text1">>,
                      boundingBox |-> BBox(7, 7, 1, 1), pageIndex |-> 0,
                      isSignature |-> FALSE]

\* name and constructor.name of each form field
FormField(f) ==
    CASE f = "f1" -> [name |-> <<"Sig1">>, typeName |-> <<"S">>]
      [] f = "f2" -> [name |-> <<"MY_", "SIGNATURE", "_2">>,
                      typeName |-> <<"x">>]
      [] f = "f3" -> [name |-> <<"Text1">>,
                      typeName |-> <<"Text", "FormField">>]

----------------------------------------------------------------------------
(* Sequence helpers *)

Range(s) == {s[i] : i \in 1..Len(s)}

RECURSIVE Without(_, _)
Without(s, x) ==
    IF s = <<>> THEN <<>>
    ELSE IF Head(s) = x THEN Without(Tail(s), x)
    ELSE <<Head(s)>> \o Without(Tail(s), x)

RECURSIVE Filter(_, _)
Filter(s, keep) ==
    IF s = <<>> THEN <<>>
    ELSE IF Head(s) \in keep THEN <<Head(s)>> \o Filter(Tail(s), keep)
    ELSE Filter(Tail(s), keep)

\* the orders in which the members of S can be listed
Orders(S) ==
    {s \in [1..Cardinality(S) -> S] : \A i, j \in 1..Cardinality(S) :
        i # j => s[i] # s[j]}

\* the injective sequences over S of length 1..n
Batches(S, n) ==
    UNION {{s \in [1..k -> S] : \A i, j \in 1..k : i # j => s[i] # s[j]} :
              k \in 1..n}

\* List.find: the first element satisfying the test, or Null (undefined)
FirstIn(s, ok) ==
    IF \E i \in 1..Len(s) : s[i] \in ok
    THEN s[CHOOSE i \in 1..Len(s) :
               s[i] \in ok /\ \A j \in 1..(i - 1) : s[j] \notin ok]
    ELSE Null

----------------------------------------------------------------------------
(* Pure helpers of the module *)

\* isSignatureField(formField, config); ff is a field id or Null (undefined)
isSignatureField(ff, config) ==
    IF ff = Null THEN FALSE
    ELSE LET typeName == FormField(ff).typeName
             fieldName == FormField(ff).name
         IN \/ Includes(typeName, <<"Signature">>)
            \/ typeName = config.signatureIdentifiers.typeCode
            \/ Includes(fieldName, config.signatureIdentifiers.namePattern)

\* faulty variant: boxes that only touch do not overlap
checkBoundingBoxOverlapStrict(bbox1, bbox2) ==
    ~ \/ bbox1.left >= bbox2.left + bbox2.width
      \/ bbox1.left + bbox1.width <= bbox2.left
      \/ bbox1.top >= bbox2.top + bbox2.height
      \/ bbox1.top + bbox1.height <= bbox2.top

\* checkBoundingBoxOverlap(bbox1, bbox2)
checkBoundingBoxOverlap(bbox1, bbox2) ==
    ~ \/ bbox1.left > bbox2.left + bbox2.width
      \/ bbox1.left + bbox1.width < bbox2.left
      \/ bbox1.top > bbox2.top + bbox2.height
      \/ bbox1.top + bbox1.height < bbox2.top

(* Errors thrown by the host: an error object with a message, one without  *)
(* a message, or an array of error objects.                                *)
MsgNoFormField ==
    <<"There", "is", "no", "form", "field", "with", "the", "name">>
MsgPermission == <<"Permission", "denied">>
MsgNoAnnotation == <<"There", "is", "no", "annotation", "with", "the", "id">>

ErrNoField == [isArray |-> FALSE, errs |-> <<[message |-> MsgNoFormField]>>]
ErrNoFieldArr == [isArray |-> TRUE, errs |-> <<[message |-> MsgNoFormField]>>]
ErrPermission == [isArray |-> FALSE, errs |-> <<[message |-> MsgPermission]>>]
ErrNoMessage == [isArray |-> FALSE, errs |-> <<[message |-> EmptyStr]>>]
ErrNoAnnotation ==
    [isArray |-> FALSE, errs |-> <<[message |-> MsgNoAnnotation]>>]

\* what a delete of an absent form field is rejected with
AbsentFieldErrors == {ErrNoField, ErrNoFieldArr}
\* what a host call is rejected with for any other reason
OtherErrors == {ErrPermission, ErrNoMessage}

\* isFormFieldNotFoundError(error)
isFormFieldNotFoundError(error) ==
    LET errors == error.errs   \* Array.isArray(error) ? error : [error]
    IN \E i \in 1..Len(errors) :
          LET errorMsg == errors[i].message
          IN \/ Includes(errorMsg, <<"no", "form", "field">>)
             \/ Includes(errorMsg, <<"There", "is", "no", "form", "field">>)

----------------------------------------------------------------------------
(* Matching (handleSignatureCreation, lines 373-417) *)

\* faulty variant: the page list is searched unfiltered
WidgetAnnotationsUnfiltered(allAnnotations) == allAnnotations

\* allAnnotations.filter(ann instanceof WidgetAnnotation)
WidgetAnnotations(allAnnotations) ==
    Filter(allAnnotations, {w \in AnnotationIds : Annotation(w).kind = "widget"})

\* formFields.find(f => f.name === name)
FindField(formFields, name) ==
    FirstIn(formFields, {f \in FieldIds : FormField(f).name = name})

\* Strategy 1: match by formFieldName
Strategy1(a, widgetAnnotations, formFields) ==
    LET name == Annotation(a).formFieldName
    IN IF Truthy(name)
       THEN [widget |-> FirstIn(widgetAnnotations,
                          {w \in AnnotationIds :
                              Annotation(w).formFieldName = name}),
             field |-> FindField(formFields, name)]
       ELSE [widget |-> Null, field |-> Null]

\* faulty variant: the loop of strategy 2 without the signature-field test
Strategy2AcceptsAnyOverlap(a, w, formFields) ==
    /\ checkBoundingBoxOverlap(Annotation(a).boundingBox,
                               Annotation(w).boundingBox)
    /\ Truthy(Annotation(w).formFieldName)

\* the test of one widget in the loop of strategy 2
Strategy2Accepts(a, w, formFields) ==
    /\ checkBoundingBoxOverlap(Annotation(a).boundingBox,
                               Annotation(w).boundingBox)
    /\ Truthy(Annotation(w).formFieldName)
    /\ isSignatureField(FindField(formFields, Annotation(w).formFieldName),
                        DEFAULT_CONFIG)

\* faulty variant: strategy 2 takes the first signature field of the list
\* instead of the field of the widget it accepted
Strategy2FirstSignatureField(a, widgetAnnotations, formFields, found) ==
    LET w == FirstIn(widgetAnnotations,
                     {x \in AnnotationIds : Strategy2Accepts(a, x, formFields)})
    IN IF w = Null THEN found
       ELSE [widget |-> w,
             field |-> FirstIn(formFields,
                          {f \in FieldIds : isSignatureField(f, DEFAULT_CONFIG)})]

\* Strategy 2: the first widget the loop accepts; it breaks there
Strategy2(a, widgetAnnotations, formFields, found) ==
    LET w == FirstIn(widgetAnnotations,
                     {x \in AnnotationIds : Strategy2Accepts(a, x, formFields)})
    IN IF w = Null THEN found
       ELSE [widget |-> w,
             field |-> FindField(formFields, Annotation(w).formFieldName)]

\* faulty variant: strategy 2 runs whatever strategy 1 found
Strategy2NeededAlways(widgetToDelete) == TRUE

\* if (!widgetToDelete)
Strategy2Needed(widgetToDelete) == widgetToDelete = Null

\* widgetToDelete, formFieldToDelete and whether strategy 2 ran
SelectTargets(a, allAnnotations, formFields) ==
    LET widgetAnnotations == WidgetAnnotations(allAnnotations)
        s1 == Strategy1(a, widgetAnnotations, formFields)
        s2 == Strategy2(a, widgetAnnotations, formFields, s1)
    IN IF Strategy2Needed(s1.widget)
       THEN [widget |-> s2.widget, field |-> s2.field, strategy2 |-> TRUE,
             by |-> IF s2.widget # Null THEN 2 ELSE 0]
       ELSE [widget |-> s1.widget, field |-> s1.field, strategy2 |-> FALSE,
             by |-> 1]

----------------------------------------------------------------------------
(* The handler returned by createAnnotationHandler and the calls of        *)
(* handleSignatureCreation it awaits.                                      *)

Events == 1..MaxEvents

\* the function initializeSignatureDecorator subscribes
Handler == "handler"

NoTask ==
    [pc |-> "none", allAnnotations |-> <<>>, formFields |-> <<>>,
     widgetToDelete |-> Null, formFieldToDelete |-> Null,
     strategy2 |-> FALSE, by |-> 0,
     widgetFailure |-> "none", fieldFailure |-> "none",
     logs |-> {}, calls |-> <<>>]

IdleHandler == [state |-> "idle", batch |-> <<>>, idx |-> 0]

\* a call of handleSignatureCreation that has not settled
Active(t) == t.pc \notin {"none", "end", "threw"}

\* faulty variant: the handler takes what the renderer decorates
QualifiesLikeRenderer(a) ==
    \/ Annotation(a).kind \in {"ink", "image"}
    \/ Annotation(a).isSignature

\* isInkAnnotation || isImageAnnotation
Qualifies(a) == Annotation(a).kind \in {"ink", "image"}

\* faulty variant: the loop calls handleSignatureCreation without awaiting it
LoopStartsNoAwait(batch, i) == {j \in i..Len(batch) : Qualifies(batch[j])}

\* the calls of handleSignatureCreation one run of the loop makes from
\* position i before it suspends: it awaits the first one
LoopStarts(batch, i) ==
    LET q == {j \in i..Len(batch) : Qualifies(batch[j])}
    IN IF q = {} THEN {} ELSE {CHOOSE j \in q : \A k \in q : j <= k}

\* faulty variant: the cleanup fetches the page at once, with no delay
StartTaskNoDelay ==
    [NoTask EXCEPT !.pc = "getAnnotations",
                   !.logs = {"detected"},
                   !.calls = <<[op |-> "getAnnotations", arg |-> Null]>>]

\* handleSignatureCreation up to its first await: the log and the timer
StartTask ==
    [NoTask EXCEPT !.pc = "delay",
                   !.logs = {"detected"},
                   !.calls = <<[op |-> "setTimeout", arg |-> SettleDelay]>>]

\* the loop of the handler runs from position i until it suspends or ends
RunLoop(hd, tk, h, i) ==
    LET batch == hd[h].batch
        js == LoopStarts(batch, i)
    IN IF js = {}
       THEN [handler |-> [hd EXCEPT ![h].state = "done",
                                    ![h].idx = Len(batch) + 1],
             task |-> tk]
       ELSE [handler |->
                [hd EXCEPT ![h].state = "running",
                           ![h].idx = CHOOSE j \in js : \A k \in js : k <= j],
             task |->
                [a \in Created |->
                    IF \E j \in js : batch[j] = a THEN StartTask ELSE tk[a]]]

\* the event whose batch holds annotation a
EventOf(hd, a) == CHOOSE h \in Events : a \in Range(hd[h].batch)

\* faulty variant: the loop ends at the first cleanup that logged an error
SettleStopsOnError(hd, tk, a) ==
    LET h == EventOf(hd, a)
    IN IF hd[h].state = "running" /\ hd[h].batch[hd[h].idx] = a
       THEN IF "error: deleting widget/form field" \in tk[a].logs
            THEN [handler |-> [hd EXCEPT ![h].state = "done"], task |-> tk]
            ELSE RunLoop(hd, tk, h, hd[h].idx + 1)
       ELSE [handler |-> hd, task |-> tk]

\* a call of handleSignatureCreation settled (tk[a].pc is "end" or "threw"):
\* the handler awaiting it resumes
Settle(hd, tk, a) ==
    LET h == EventOf(hd, a)
    IN IF hd[h].state = "running" /\ hd[h].batch[hd[h].idx] = a
       THEN IF tk[a].pc = "threw"
            THEN [handler |-> [hd EXCEPT ![h].state = "rejected"], task |-> tk]
            ELSE RunLoop(hd, tk, h, hd[h].idx + 1)
       ELSE [handler |-> hd, task |-> tk]

\* faulty variant: the catch around the form-field delete takes every error as benign
InnerCatchSwallowsAll(formFieldError) ==
    [rethrow |-> FALSE, log |-> "info: form field already deleted"]

\* the catch around the form-field delete (lines 432-438)
InnerCatch(formFieldError) ==
    IF isFormFieldNotFoundError(formFieldError)
    THEN [rethrow |-> FALSE, log |-> "info: form field already deleted"]
    ELSE [rethrow |-> TRUE, log |-> "none"]

\* faulty variant: the catch around the whole cleanup rethrows what is not benign
OuterCatchRethrows(error) ==
    IF isFormFieldNotFoundError(error)
    THEN [pc |-> "end", log |-> "info: form field already deleted"]
    ELSE [pc |-> "threw", log |-> "error: deleting widget/form field"]

\* the catch around the whole cleanup (lines 440-446)
OuterCatch(error) ==
    IF isFormFieldNotFoundError(error)
    THEN [pc |-> "end", log |-> "info: form field already deleted"]
    ELSE [pc |-> "end", log |-> "error: deleting widget/form field"]

\* the call settles with pc ("end": resolved, "threw": rejected); the lists
\* it fetched go out of scope, what it chose and did stays on record
Settled(t, pc) ==
    [t EXCEPT !.pc = pc, !.allAnnotations = <<>>, !.formFields = <<>>]

\* a host call made inside the try block rejected with error
Caught(t, error) ==
    LET c == OuterCatch(error)
    IN Settled([t EXCEPT !.logs = @ \cup {c.log}], c.pc)

Call(t, op, arg) == [t EXCEPT !.calls = Append(@, [op |-> op, arg |-> arg])]

----------------------------------------------------------------------------
(* State machine *)

\* the variables of the other parts, out of use
OthersParked ==
    cfg = Null /\ crv = Null /\ ovl = Null /\ rnd = Null /\ imp = Null /\ eff = Null

\* the variables of the cleanup coordinator, out of use
CleanupParked ==
    /\ annots = <<>> /\ fields = <<>> /\ listeners = {}
    /\ tornDown = FALSE /\ handler = <<>> /\ task = <<>>

Init ==
    /\ OthersParked
    /\ annots \in Orders(Widgets)
    /\ fields = FieldOrder
    /\ listeners = {Handler}       \* addEventListener("annotations.create")
    /\ tornDown = FALSE
    /\ handler = [h \in Events |-> IdleHandler]
    /\ task = [a \in Created |-> NoTask]

\* faulty variant: removeEventListener is given a function that was never subscribed
RemovedListenerFresh == "another handler"

\* the function removeEventListener is called with
RemovedListener == Handler

\* after a step of the call for a: if the call settled, its handler resumes
Resume(tk, a) ==
    LET r == IF Active(tk[a]) THEN [handler |-> handler, task |-> tk]
             ELSE Settle(handler, tk, a)
    IN handler' = r.handler /\ task' = r.task

\* faulty variant: the form field is left to the host
FormFieldStepSkipped(t) == Settled(t, "end")

\* faulty variant: the second delete is given the widget again
FormFieldStepRepeatsWidget(t) ==
    IF t.formFieldToDelete # Null
    THEN [Call(t, "delete", t.widgetToDelete) EXCEPT !.pc = "deleteFormField"]
    ELSE Settled(t, "end")

\* lines 427-439 once the widget step is over: the form-field delete is
\* issued, or the cleanup returns
FormFieldStep(t) ==
    IF t.formFieldToDelete # Null
    THEN [Call(t, "delete", t.formFieldToDelete) EXCEPT !.pc = "deleteFormField"]
    ELSE Settled(t, "end")

\* faulty variant: the cleanup returns when no widget was found
WidgetStepReturnsEarly(t) ==
    IF t.widgetToDelete # Null
    THEN [Call(t, "delete", t.widgetToDelete) EXCEPT !.pc = "deleteWidget"]
    ELSE Settled([t EXCEPT !.logs = @ \cup {"warn: no widget"}], "end")

\* faulty variant: the widget delete is issued without the null check
WidgetStepDeletesNull(t) ==
    [Call(t, "delete", t.widgetToDelete) EXCEPT !.pc = "deleteWidget"]

\* lines 419-425 once the targets are chosen
WidgetStep(t) ==
    IF t.widgetToDelete # Null
    THEN [Call(t, "delete", t.widgetToDelete) EXCEPT !.pc = "deleteWidget"]
    ELSE FormFieldStep([t EXCEPT !.logs = @ \cup {"warn: no widget"}])

\* the host creates the annotations of batch b and calls the subscribed
\* handler with them; the handler runs to its first await
Deliver(b) ==
    /\ Handler \in listeners
    /\ \E h \in Events :
          /\ handler[h].state = "idle"
          /\ \A g \in Events : g < h => handler[g].state # "idle"
          /\ LET hd == [handler EXCEPT ![h] =
                           [state |-> "running", batch |-> b, idx |-> 0]]
                 r == RunLoop(hd, task, h, 1)
             IN handler' = r.handler /\ task' = r.task
    /\ annots' = annots \o b
    /\ UNCHANGED <<others, fields, listeners, tornDown>>

\* the owner calls the function initializeSignatureDecorator returned
Teardown ==
    /\ ~tornDown
    /\ tornDown' = TRUE
    /\ listeners' = listeners \ {RemovedListener}
    /\ UNCHANGED <<others, annots, fields, handler, task>>

\* the settle delay elapses; instance.getAnnotations(pageIndex) is called
TimerFires(a) ==
    /\ task[a].pc = "delay"
    /\ task' = [task EXCEPT ![a] =
          [Call(@, "getAnnotations", Annotation(a).pageIndex)
              EXCEPT !.pc = "getAnnotations"]]
    /\ UNCHANGED <<others, annots, fields, listeners, tornDown, handler>>

\* getAnnotations resolves; instance.getFormFields() is called
GetAnnotationsResolves(a) ==
    /\ task[a].pc = "getAnnotations"
    /\ LET page == {x \in AnnotationIds :
                       Annotation(x).pageIndex = Annotation(a).pageIndex}
       IN task' = [task EXCEPT ![a] =
             [Call(@, "getFormFields", Null)
                 EXCEPT !.pc = "getFormFields",
                        !.allAnnotations = Filter(annots, page)]]
    /\ UNCHANGED <<others, annots, fields, listeners, tornDown, handler>>

\* getAnnotations or getFormFields rejects
FetchRejects(a) ==
    /\ task[a].pc \in {"getAnnotations", "getFormFields"}
    /\ \E e \in OtherErrors :
          Resume([task EXCEPT ![a] = Caught(@, e)], a)
    /\ UNCHANGED <<others, annots, fields, listeners, tornDown>>

\* getFormFields resolves; the targets are chosen and the first delete issued
GetFormFieldsResolves(a) ==
    /\ task[a].pc = "getFormFields"
    /\ LET sel == SelectTargets(a, task[a].allAnnotations, fields)
           t == [task[a] EXCEPT
                    !.formFields = fields,
                    !.widgetToDelete = sel.widget,
                    !.formFieldToDelete = sel.field,
                    !.strategy2 = sel.strategy2,
                    !.by = sel.by]
       IN Resume([task EXCEPT ![a] = WidgetStep(t)], a)
    /\ UNCHANGED <<others, annots, fields, listeners, tornDown>>

\* instance.delete(widgetToDelete) resolves: the host removed the widget,
\* and with it, or not, the form field the widget belongs to
DeleteWidgetResolves(a) ==
    /\ task[a].pc = "deleteWidget"
    /\ task[a].widgetToDelete \in Range(annots)
    /\ annots' = Without(annots, task[a].widgetToDelete)
    /\ \E sideEffect \in BOOLEAN :
          fields' =
             IF sideEffect
             THEN Filter(fields, {f \in FieldIds : FormField(f).name #
                            Annotation(task[a].widgetToDelete).formFieldName})
             ELSE fields
    /\ Resume([task EXCEPT ![a] =
          FormFieldStep([@ EXCEPT !.logs = @ \cup {"deleted widget"}])], a)
    /\ UNCHANGED <<others, listeners, tornDown>>

\* instance.delete(widgetToDelete) rejects
DeleteWidgetRejects(a) ==
    /\ task[a].pc = "deleteWidget"
    /\ LET absent == task[a].widgetToDelete \notin Range(annots)
       IN \E e \in (IF absent THEN {ErrNoAnnotation} ELSE OtherErrors) :
             LET t == [task[a] EXCEPT !.widgetFailure =
                          IF absent THEN "absent" ELSE "other"]
             IN Resume([task EXCEPT ![a] = Caught(t, e)], a)
    /\ UNCHANGED <<others, annots, fields, listeners, tornDown>>

\* instance.delete(formFieldToDelete) resolves
DeleteFormFieldResolves(a) ==
    /\ task[a].pc = "deleteFormField"
    /\ task[a].formFieldToDelete \in Range(fields)
    /\ fields' = Without(fields, task[a].formFieldToDelete)
    /\ Resume([task EXCEPT ![a] =
          Settled([@ EXCEPT !.logs = @ \cup {"deleted form field"}], "end")], a)
    /\ UNCHANGED <<others, annots, listeners, tornDown>>

\* instance.delete(formFieldToDelete) rejects: the field is absent, or the
\* host refuses for another reason
DeleteFormFieldRejects(a) ==
    /\ task[a].pc = "deleteFormField"
    /\ LET absent == task[a].formFieldToDelete \notin Range(fields)
       IN \E e \in (IF absent THEN AbsentFieldErrors ELSE OtherErrors) :
             LET t == [task[a] EXCEPT !.fieldFailure =
                          IF absent THEN "absent" ELSE "other"]
                 c == InnerCatch(e)
             IN Resume([task EXCEPT ![a] =
                   IF c.rethrow THEN Caught(t, e)
                   ELSE Settled([t EXCEPT !.logs = @ \cup {c.log}], "end")], a)
    /\ UNCHANGED <<others, annots, fields, listeners, tornDown>>

Step(a) ==
    \/ TimerFires(a)
    \/ GetAnnotationsResolves(a)
    \/ FetchRejects(a)
    \/ GetFormFieldsResolves(a)
    \/ DeleteWidgetResolves(a)
    \/ DeleteWidgetRejects(a)
    \/ DeleteFormFieldResolves(a)
    \/ DeleteFormFieldRejects(a)

Next ==
    \/ \E b \in Batches(Created \ Range(annots), MaxBatch) :
          /\ Cardinality(Range(annots) \cap Created) + Len(b) <= MaxCreated
          /\ Deliver(b)
    \/ Teardown
    \/ \E a \in Created : Step(a)

Spec == Init /\ [][Next]_vars

\* the event loop runs a due timer or the continuation of a settled host
\* call as long as there is one
FairSpec == Spec /\ WF_vars(\E a \in Created : Step(a))

----------------------------------------------------------------------------
(* The configuration merge of createSignatureRenderer and of               *)
(* initializeSignatureDecorator.                                           *)

MaxOverridden == 2   \* leaves a custom configuration sets

EmptyObject == <<>>

\* { ...a, ...b }
Spread(a, b) ==
    [k \in DOMAIN a \cup DOMAIN b |-> IF k \in DOMAIN b THEN b[k] ELSE a[k]]

\* o.k where undefined spreads as the empty object
Sub(o, k) == IF k \in DOMAIN o THEN o[k] ELSE EmptyObject

\* the paths of the leaves of DEFAULT_CONFIG
Leaves ==
    UNION {IF k = "text"
           THEN {<<k, j>> : j \in DOMAIN DEFAULT_CONFIG[k] \ {"fontSize"}}
                \cup {<<k, "fontSize", m>> :
                         m \in DOMAIN DEFAULT_CONFIG[k].fontSize}
           ELSE {<<k, j>> : j \in DOMAIN DEFAULT_CONFIG[k]}
           : k \in DOMAIN DEFAULT_CONFIG}

NumericLeaves ==
    {p \in Leaves : \/ p[1] = "position"
                    \/ p[1] = "curve" /\ p[2] \notin {"color", "strokeWidth"}
                    \/ p[1] = "text" /\ p[2] \in {"fontSize", "gap"}}

At(c, p) == IF Len(p) = 2 THEN c[p[1]][p[2]] ELSE c[p[1]][p[2]][p[3]]

\* the value a custom configuration gives leaf p
CustomValue(p) ==
    IF p \in NumericLeaves THEN At(DEFAULT_CONFIG, p) + 1
    ELSE IF p = <<"dateTimeFormat", "hour12">> THEN FALSE
    ELSE <<"custom">>

\* the custom configuration that sets exactly the leaves ps
CustomConfig(ps) ==
    [k \in {p[1] : p \in ps} |->
        [j \in {p[2] : p \in {q \in ps : q[1] = k}} |->
            IF k = "text" /\ j = "fontSize"
            THEN [m \in {p[3] : p \in {q \in ps : q[1] = k /\ q[2] = j}} |->
                     CustomValue(<<k, j, m>>)]
            ELSE CustomValue(<<k, j>>)]]

RECURSIVE LeafSets(_)
LeafSets(n) ==
    IF n = 0 THEN {{}}
    ELSE LeafSets(n - 1) \cup {s \cup {p} : s \in LeafSets(n - 1), p \in Leaves}

CustomConfigs == {CustomConfig(ps) : ps \in LeafSets(MaxOverridden)}

\* lines 259-277: the merge of createSignatureRenderer
RendererConfig(customConfig) ==
    LET sub(k) == Spread(DEFAULT_CONFIG[k], Sub(customConfig, k))
        top == Spread(DEFAULT_CONFIG, customConfig)
    IN [top EXCEPT
          !.curve = sub("curve"),
          !.text = Spread(sub("text"),
                      [fontSize |->
                          Spread(DEFAULT_CONFIG.text.fontSize,
                                 Sub(Sub(customConfig, "text"), "fontSize"))]),
          !.position = sub("position"),
          !.signatureIdentifiers = sub("signatureIdentifiers"),
          !.defaults = sub("defaults")]

\* line 523: the merge of initializeSignatureDecorator
DecoratorConfig(customConfig) == Spread(DEFAULT_CONFIG, customConfig)

MergeInit ==
    /\ CleanupParked
    /\ crv = Null /\ ovl = Null /\ rnd = Null /\ imp = Null /\ eff = Null
    /\ cfg = [by |-> "none", customConfig |-> EmptyObject,
              config |-> DEFAULT_CONFIG]

\* createSignatureRenderer(NutrientViewer, { config: c })
CreateRendererWith(c) ==
    /\ cfg' = [by |-> "createSignatureRenderer", customConfig |-> c,
               config |-> RendererConfig(c)]
    /\ UNCHANGED <<cleanup, crv, ovl, rnd, imp, eff>>

\* initializeSignatureDecorator(instance, NutrientViewer, { config: c })
InitDecoratorWith(c) ==
    /\ cfg' = [by |-> "initializeSignatureDecorator", customConfig |-> c,
               config |-> DecoratorConfig(c)]
    /\ UNCHANGED <<cleanup, crv, ovl, rnd, imp, eff>>

MergeNext ==
    \E c \in CustomConfigs : CreateRendererWith(c) \/ InitDecoratorWith(c)

MergeSpec == MergeInit /\ [][MergeNext]_vars

----------------------------------------------------------------------------
(* Numbers.  A number is NaN or a value in hundredths of a unit, so that   *)
(* the products of whole pixels with the ratios 0.25, 0.35 and 0.4 are     *)
(* exact.                                                                  *)

Num(v) == [nan |-> FALSE, v |-> v]
NaN == [nan |-> TRUE, v |-> 0]

\* the number n of whole units
Whole(n) == Num(n * 100)

\* x * r for a ratio r given in hundredths
Times(x, r) == IF x.nan THEN NaN ELSE Num((x.v * r) \div 100)

\* x + n for a whole number n
Plus(x, n) == IF x.nan THEN NaN ELSE Num(x.v + n * 100)

\* Math.min and Math.max: NaN if either argument is NaN
MathMin(x, y) ==
    IF x.nan \/ y.nan THEN NaN ELSE IF x.v <= y.v THEN x ELSE y

MathMax(x, y) ==
    IF x.nan \/ y.nan THEN NaN ELSE IF x.v >= y.v THEN x ELSE y

----------------------------------------------------------------------------
(* The two curves, built for one signature size after another.             *)

MaxWidth == 220    \* widest signature, in pixels
MaxHeight == 1     \* highest signature, in pixels

\* faulty variant: the top curve is not capped
createTopCurveUncapped(width, config) ==
    LET curveLength == Times(width, config.curve.topLengthRatio)
    IN [path |-> [lineTo |-> curveLength, y |-> Whole(8),
                  stroke |-> config.curve.color,
                  strokeWidth |-> config.curve.strokeWidth],
        length |-> curveLength]

\* createTopCurve(width, config): the path ends at (curveLength, 8)
createTopCurve(width, config) ==
    LET curveLength == MathMin(Times(width, config.curve.topLengthRatio),
                               Whole(config.curve.topLengthMax))
    IN [path |-> [lineTo |-> curveLength, y |-> Whole(8),
                  stroke |-> config.curve.color,
                  strokeWidth |-> config.curve.strokeWidth],
        length |-> curveLength]

\* createBottomCurve(height, width, config): the path ends at
\* (curveLength, bottomY + 15)
createBottomCurve(height, width, config) ==
    LET bottomY == Plus(height, 25)
        curveLength == MathMin(Times(width, config.curve.bottomLengthRatio),
                               Whole(config.curve.bottomLengthMax))
    IN [path |-> [lineTo |-> curveLength, y |-> Plus(bottomY, 15),
                  stroke |-> config.curve.color,
                  strokeWidth |-> config.curve.strokeWidth],
        length |-> curveLength]

\* the configurations the curves are built with: the defaults, and the
\* defaults with one ratio or one cap of the curves changed
CurveConfigs ==
    {RendererConfig(CustomConfig(ps)) :
        ps \in {{}} \cup {{p} : p \in {q \in NumericLeaves : q[1] = "curve"}}}

CurveInit ==
    /\ CleanupParked
    /\ cfg = Null /\ ovl = Null /\ rnd = Null /\ imp = Null /\ eff = Null
    /\ \E c \in CurveConfigs : \E h \in 0..MaxHeight :
          crv = [stage |-> "none", config |-> c, height |-> h, width |-> 0,
                 top |-> NaN, bottom |-> NaN,
                 prevTop |-> NaN, prevBottom |-> NaN]

\* the first pair of curves, for a signature w pixels wide
BuildCurves(w) ==
    /\ crv.stage = "none"
    /\ LET t == createTopCurve(Whole(w), crv.config).length
           b == createBottomCurve(Whole(crv.height), Whole(w),
                                  crv.config).length
       IN crv' = [crv EXCEPT !.stage = "built", !.width = w,
                             !.top = t, !.bottom = b,
                             !.prevTop = t, !.prevBottom = b]
    /\ UNCHANGED <<cleanup, cfg, ovl, rnd, imp, eff>>

\* the next pair of curves, for a signature one pixel wider
WidenCurves ==
    /\ crv.stage = "built"
    /\ crv.width < MaxWidth
    /\ crv' = [crv EXCEPT
          !.width = @ + 1,
          !.top = createTopCurve(Whole(crv.width + 1), crv.config).length,
          !.bottom = createBottomCurve(Whole(crv.height),
                        Whole(crv.width + 1), crv.config).length,
          !.prevTop = crv.top,
          !.prevBottom = crv.bottom]
    /\ UNCHANGED <<cleanup, cfg, ovl, rnd, imp, eff>>

CurveNext == WidenCurves \/ \E w \in 0..MaxWidth : BuildCurves(w)

CurveSpec == CurveInit /\ [][CurveNext]_vars

----------------------------------------------------------------------------
(* Values as the renderer meets them: undefined, null, booleans, strings,  *)
(* numbers and objects, with the truthiness and the number conversion of   *)
(* the language.                                                           *)

Undef == [type |-> "undefined"]
NullV == [type |-> "null"]
Bool(b) == [type |-> "boolean", b |-> b]
Str(s) == [type |-> "string", s |-> s]
Number(x) == [type |-> "number", n |-> x]

\* a plain object with the properties d
PlainObject(d) ==
    [type |-> "object", immutable |-> FALSE, props |-> d, data |-> d]

\* an immutable map holding d: no own properties, toJS() gives d
ImmutableMap(d) ==
    [type |-> "object", immutable |-> TRUE, props |-> EmptyObject, data |-> d]

JsTruthy(v) ==
    CASE v.type = "boolean" -> v.b
      [] v.type = "string" -> v.s # EmptyStr
      [] v.type = "number" -> ~v.n.nan /\ v.n.v # 0
      [] v.type = "object" -> TRUE
      [] OTHER -> FALSE

\* a || b
JsOr(a, b) == IF JsTruthy(a) THEN a ELSE b

\* o.k of an object o
Prop(o, k) == IF k \in DOMAIN o.props THEN o.props[k] ELSE Undef

\* the number a value becomes in an arithmetic expression
ToNumber(v) ==
    CASE v.type = "number" -> v.n
      [] v.type = "null" -> Whole(0)
      [] v.type = "boolean" -> IF v.b THEN Whole(1) ELSE Whole(0)
      [] OTHER -> NaN

----------------------------------------------------------------------------
(* The renderer: createSignatureRenderer(NutrientViewer, options) and one  *)
(* call of the function it returns.                                        *)

\* annotation.customData?.toJS?.() || annotation.customData || {}
CustomDataOf(annotation) ==
    LET cd == annotation.customData
        viaToJS == IF cd.type = "object" /\ cd.immutable
                   THEN PlainObject(cd.data)
                   ELSE Undef
    IN JsOr(JsOr(viaToJS, cd), PlainObject(EmptyObject))

\* customData.isSignature || annotation.isSignature
IsSignature(annotation) ==
    JsOr(Prop(CustomDataOf(annotation), "isSignature"), annotation.isSignature)

\* faulty variant: the flag on the annotation itself is not read
ReturnsNullCustomDataOnly(annotation) ==
    /\ annotation.kind \notin {"ink", "image"}
    /\ ~JsTruthy(Prop(CustomDataOf(annotation), "isSignature"))

\* line 289: the test that makes the renderer return null
ReturnsNull(annotation) ==
    /\ annotation.kind # "ink"
    /\ annotation.kind # "image"
    /\ ~JsTruthy(IsSignature(annotation))

\* faulty variant: the logged-in user goes before the annotation's signer
SignerNameUserFirst(annotation, loggedInUser, config) ==
    JsOr(JsOr(loggedInUser, Prop(CustomDataOf(annotation), "signerName")),
         Str(config.defaults.signerName))

\* customData.signerName || loggedInUser || config.defaults.signerName
SignerName(annotation, loggedInUser, config) ==
    JsOr(JsOr(Prop(CustomDataOf(annotation), "signerName"), loggedInUser),
         Str(config.defaults.signerName))

\* what a call that built nothing leaves: an outcome only
Nothing(outcome) ==
    [outcome |-> outcome, elements |-> 0,
     svgWidth |-> NaN, svgHeight |-> NaN,
     topLength |-> NaN, bottomLength |-> NaN,
     topText |-> EmptyStr, topLeft |-> NaN, bottomLeft |-> NaN]

\* lines 279-348: the outcome of one call.  Reading bbox.width of a
\* missing bounding box throws; the overlay is the wrapper with the svg,
\* the two curves and the two labels, six elements in all.  The text of
\* the bottom label is the clock reading and is left out.
Render(annotation, loggedInUser, config) ==
    IF ReturnsNull(annotation) THEN Nothing("null")
    ELSE IF annotation.boundingBox.type # "object" THEN Nothing("threw")
    ELSE LET signerName == SignerName(annotation, loggedInUser, config)
             width == ToNumber(annotation.boundingBox.width)
             height == ToNumber(annotation.boundingBox.height)
             top == createTopCurve(width, config)
             bottom == createBottomCurve(height, width, config)
         IN [outcome |-> "overlay", elements |-> 6,
             svgWidth |-> MathMax(Times(width, 40), Whole(80)),
             svgHeight |-> Plus(height, 50),
             topLength |-> top.length,
             bottomLength |-> bottom.length,
             topText |-> <<"By ">> \o signerName.s,
             topLeft |-> Plus(top.length, config.text.gap),
             bottomLeft |-> Plus(bottom.length, config.text.gap)]

\* options.loggedInUser: left out (null by default), empty, or a name
LoggedInUsers == {NullV, Str(EmptyStr), Str(<<"Alice">>)}

\* options.config: left out, or with the default signer name set
RenderConfigs ==
    {EmptyObject, CustomConfig({<<"defaults", "signerName">>})}

\* custom data: none, or a plain object or an immutable map that may say
\* isSignature and may name the signer, possibly with the empty string
CustomDatas ==
    {Undef} \cup
    UNION {{PlainObject(d), ImmutableMap(d)} :
           d \in UNION {{e \in [ks -> {Bool(TRUE), Str(EmptyStr),
                                        Str(<<"Bob">>)}] :
                            \A k \in ks : (k = "isSignature")
                                             <=> (e[k].type = "boolean")} :
                          ks \in SUBSET {"isSignature", "signerName"}}}

\* width and height of a bounding box: a number of pixels, or missing,
\* null or not a number
Widths == {Number(Whole(0)), Number(Whole(100)), Number(Whole(300)),
           Undef, NullV, Number(NaN)}
Heights == {Number(Whole(30)), Undef, NullV}

BoundingBoxes ==
    {Undef} \cup {[type |-> "object", width |-> w, height |-> h] :
                     w \in Widths, h \in Heights}

RenderAnnotations ==
    {[kind |-> k, customData |-> cd, isSignature |-> f, boundingBox |-> bb] :
        k \in {"ink", "image", "widget", "other"},
        cd \in CustomDatas,
        f \in {Undef, Bool(TRUE)},
        bb \in BoundingBoxes}

RenderInit ==
    /\ CleanupParked
    /\ cfg = Null /\ crv = Null /\ ovl = Null /\ imp = Null /\ eff = Null
    /\ \E u \in LoggedInUsers, c \in RenderConfigs, a \in RenderAnnotations :
          rnd = [stage |-> "none", loggedInUser |-> u, customConfig |-> c,
                 config |-> DEFAULT_CONFIG, annotation |-> a,
                 result |-> Nothing("none")]

\* createSignatureRenderer: the options are taken apart and merged
CreateRenderer ==
    /\ rnd.stage = "none"
    /\ rnd' = [rnd EXCEPT !.stage = "made",
                          !.config = RendererConfig(rnd.customConfig)]
    /\ UNCHANGED <<cleanup, cfg, crv, ovl, imp, eff>>

\* the host calls the renderer with the annotation
CallRenderer ==
    /\ rnd.stage = "made"
    /\ rnd' = [rnd EXCEPT
          !.stage = "called",
          !.result = Render(rnd.annotation, rnd.loggedInUser, rnd.config)]
    /\ UNCHANGED <<cleanup, cfg, crv, ovl, imp, eff>>

RenderNext == CreateRenderer \/ CallRenderer

RenderSpec == RenderInit /\ [][RenderNext]_vars

----------------------------------------------------------------------------
(* The overlap test, asked about two boxes in either order.                *)

MaxCoord == 2    \* largest left and top of a box
MaxSide == 2     \* largest width and height of a box

Boxes ==
    {BBox(l, t, w, h) : l \in 0..MaxCoord, t \in 0..MaxCoord,
                        w \in 0..MaxSide, h \in 0..MaxSide}

OverlapInit ==
    /\ CleanupParked
    /\ cfg = Null /\ crv = Null /\ rnd = Null /\ imp = Null /\ eff = Null
    /\ \E a, b \in Boxes :
          ovl = [stage |-> "asked", a |-> a, b |-> b,
                 ab |-> FALSE, ba |-> FALSE]

\* checkBoundingBoxOverlap(a, b) and checkBoundingBoxOverlap(b, a)
CheckOverlap ==
    /\ ovl.stage = "asked"
    /\ ovl' = [ovl EXCEPT !.stage = "answered",
                          !.ab = checkBoundingBoxOverlap(ovl.a, ovl.b),
                          !.ba = checkBoundingBoxOverlap(ovl.b, ovl.a)]
    /\ UNCHANGED <<cleanup, cfg, crv, rnd, imp, eff>>

OverlapNext == CheckOverlap

OverlapSpec == OverlapInit /\ [][OverlapNext]_vars

----------------------------------------------------------------------------
(* The document import of the viewer component (src/unnamed/part_000): the *)
(* import button, the file inputs its presses create, and the calls of     *)
(* handleDocumentImport, each at the await it is suspended at.  A file     *)
(* name is the sequence of its parts between the dots.                     *)

MaxImports == 2     \* file inputs created and not dismissed, over a run

BUTTON_RE_ENABLE_DELAY == 200

CONVERTIBLE_EXTENSIONS == <<"docx", "tiff", "tif", "png", "jpg", "jpeg">>

TitleIdle == <<"Import Documents">>
TitleBusy == <<"Converting & Importing...">>
MessageConverting == <<"Converting document to PDF...">>
MessageImporting == <<"Importing document...">>

\* the files a user may choose
FileNames ==
    {<<"contract", "pdf">>, <<"letter", "docx">>, <<"scan", "PNG">>,
     <<"notes">>}

\* String.prototype.toLowerCase on an extension
ToLowerCase(t) == IF t = "PNG" THEN "png" ELSE t

\* requiresConversion(filename): the part after the last dot, or the whole
\* name if it has no dot, lower-cased, is a convertible extension
requiresConversion(filename) ==
    LET extension == ToLowerCase(filename[Len(filename)])
    IN extension \in Range(CONVERTIBLE_EXTENSIONS)

ImportIds == 1..MaxImports

NoImport ==
    [pc |-> "none", file |-> EmptyStr, container |-> "none",
     headless |-> "none"]

\* a call of handleDocumentImport that has not settled
InFlight(m) == m.pc \notin {"none", "done", "failed"}

\* toggleLoadingOverlay(show, message)
toggleLoadingOverlay(st, show, message) ==
    IF show
    THEN [st EXCEPT !.overlay = [display |-> "flex", message |-> message]]
    ELSE [st EXCEPT !.overlay.display = "none"]

\* updateImportButtonState(isDisabled, title)
updateImportButtonState(st, isDisabled, title) ==
    [st EXCEPT !.button = [disabled |-> isDisabled, title |-> title]]

\* instance.applyOperations([{ type: "importDocument", ... }]) is called
CallApplyOperations(st, i) ==
    [st EXCEPT !.imports[i].pc = "applyOperations"]

\* lines 115-127: handleDocumentImport(file) up to its first await
StartImport(st, i, file) ==
    LET s1 == updateImportButtonState(
                  [st EXCEPT !.imports[i].pc = "started",
                             !.imports[i].file = file],
                  TRUE, TitleBusy)
        conversionNeeded == requiresConversion(file)
        s2 == toggleLoadingOverlay(s1, TRUE,
                  IF conversionNeeded THEN MessageConverting
                  ELSE MessageImporting)
    IN IF conversionNeeded
       THEN [s2 EXCEPT !.imports[i].pc = "arrayBuffer"]
       ELSE CallApplyOperations(s2, i)

\* faulty variant: the catch block leaves the button as it is
CatchImportButtonKept(st, i) ==
    LET s1 == toggleLoadingOverlay(st, FALSE, EmptyStr)
    IN [s1 EXCEPT !.alerts = @ + 1, !.imports[i].pc = "failed"]

\* lines 151-155: the catch block of handleDocumentImport
CatchImport(st, i) ==
    LET s1 == toggleLoadingOverlay(st, FALSE, EmptyStr)
        s2 == [s1 EXCEPT !.alerts = @ + 1]
    IN updateImportButtonState([s2 EXCEPT !.imports[i].pc = "failed"],
                               FALSE, TitleIdle)

\* lines 80-82: the finally block of convertToPDF
RemoveContainer(st, i) == [st EXCEPT !.imports[i].container = "removed"]

ImportInit ==
    /\ CleanupParked
    /\ cfg = Null /\ crv = Null /\ ovl = Null /\ rnd = Null /\ eff = Null
    /\ imp = [button |-> [disabled |-> FALSE, title |-> TitleIdle],
              overlay |-> [display |-> "none", message |-> <<"Loading...">>],
              inputs |-> 0,
              imports |-> [i \in ImportIds |-> NoImport],
              timers |-> {},
              alerts |-> 0]

ImportRest == <<cleanup, cfg, crv, ovl, rnd, eff>>

\* the number of imports started so far
Started == Cardinality({i \in ImportIds : imp.imports[i].pc # "none"})

\* onPress: createFileInput().click() opens a file input; the host calls
\* onPress only while the button is enabled
PressImport ==
    /\ ~imp.button.disabled
    /\ imp.inputs + Started < MaxImports
    /\ imp' = [imp EXCEPT !.inputs = @ + 1]
    /\ UNCHANGED ImportRest

\* the user dismisses a file input without choosing a file
DismissInput ==
    /\ imp.inputs > 0
    /\ imp' = [imp EXCEPT !.inputs = @ - 1]
    /\ UNCHANGED ImportRest

\* onchange: the user chose a file in an open file input
ChooseFile(file) ==
    /\ imp.inputs > 0
    /\ LET i == Started + 1
       IN imp' = StartImport([imp EXCEPT !.inputs = @ - 1], i, file)
    /\ UNCHANGED ImportRest

\* file.arrayBuffer() resolves: the container is appended and the headless
\* load is called
ArrayBufferResolves(i) ==
    /\ imp.imports[i].pc = "arrayBuffer"
    /\ imp' = [imp EXCEPT !.imports[i].pc = "load",
                          !.imports[i].container = "attached"]
    /\ UNCHANGED ImportRest

\* file.arrayBuffer() rejects, before the try block of convertToPDF
ArrayBufferRejects(i) ==
    /\ imp.imports[i].pc = "arrayBuffer"
    /\ imp' = CatchImport(imp, i)
    /\ UNCHANGED ImportRest

\* NutrientViewer.load({ headless: true, ... }) resolves: exportPDF is
\* called
HeadlessLoadResolves(i) ==
    /\ imp.imports[i].pc = "load"
    /\ imp' = [imp EXCEPT !.imports[i].pc = "exportPDF",
                          !.imports[i].headless = "loaded"]
    /\ UNCHANGED ImportRest

HeadlessLoadRejects(i) ==
    /\ imp.imports[i].pc = "load"
    /\ imp' = CatchImport(RemoveContainer(imp, i), i)
    /\ UNCHANGED ImportRest

\* exportPDF() resolves: NutrientViewer.unload(tempContainer) is called
ExportResolves(i) ==
    /\ imp.imports[i].pc = "exportPDF"
    /\ imp' = [imp EXCEPT !.imports[i].pc = "unload"]
    /\ UNCHANGED ImportRest

ExportRejects(i) ==
    /\ imp.imports[i].pc = "exportPDF"
    /\ imp' = CatchImport(RemoveContainer(imp, i), i)
    /\ UNCHANGED ImportRest

\* unload resolves: convertToPDF returns the converted file and
\* handleDocumentImport goes on to applyOperations
UnloadResolves(i) ==
    /\ imp.imports[i].pc = "unload"
    /\ imp' = CallApplyOperations(
                  RemoveContainer(
                      [imp EXCEPT !.imports[i].headless = "unloaded"], i), i)
    /\ UNCHANGED ImportRest

UnloadRejects(i) ==
    /\ imp.imports[i].pc = "unload"
    /\ imp' = CatchImport(RemoveContainer(imp, i), i)
    /\ UNCHANGED ImportRest

\* applyOperations resolves: the overlay is hidden and the timer that
\* re-enables the button is set
ApplyResolves(i) ==
    /\ imp.imports[i].pc = "applyOperations"
    /\ imp' = [toggleLoadingOverlay(imp, FALSE, EmptyStr) EXCEPT
                  !.imports[i].pc = "done",
                  !.timers = @ \cup {[id |-> i,
                                        delay |-> BUTTON_RE_ENABLE_DELAY]}]
    /\ UNCHANGED ImportRest

ApplyRejects(i) ==
    /\ imp.imports[i].pc = "applyOperations"
    /\ imp' = CatchImport(imp, i)
    /\ UNCHANGED ImportRest

\* BUTTON_RE_ENABLE_DELAY after a successful import its timer fires
ReEnableTimerFires(i) ==
    /\ \E t \in imp.timers :
          /\ t.id = i
          /\ imp' = updateImportButtonState(
                        [imp EXCEPT !.timers = @ \ {t}], FALSE, TitleIdle)
    /\ UNCHANGED ImportRest

ImportStep(i) ==
    \/ ArrayBufferResolves(i) \/ ArrayBufferRejects(i)
    \/ HeadlessLoadResolves(i) \/ HeadlessLoadRejects(i)
    \/ ExportResolves(i) \/ ExportRejects(i)
    \/ UnloadResolves(i) \/ UnloadRejects(i)
    \/ ApplyResolves(i) \/ ApplyRejects(i)
    \/ ReEnableTimerFires(i)

ImportNext ==
    \/ PressImport
    \/ DismissInput
    \/ \E file \in FileNames : ChooseFile(file)
    \/ \E i \in ImportIds : ImportStep(i)

ImportSpec == ImportInit /\ [][ImportNext]_vars

\* every promise an import awaits settles and every timer set fires
FairImportSpec == ImportSpec /\ WF_vars(\E i \in ImportIds : ImportStep(i))

-----------------------------------------------------------------------------
(* The viewer component's effect: loadViewer and the effect's cleanup

   part_000 lines 30-276.  The effect runs when the component mounts and
   again whenever props.document changes; React runs the cleanup of the
   previous run before the next run, and on unmount.  The container is the
   one div of the component, the same node for every run.  The host
   (NutrientViewer) is outside the repository: unload(container) takes
   away whatever instance is loaded in the container when it is called
   and throws when there is none; a load that was called settles at any
   later time, by resolving with an instance mounted in the container
   when the container is free, or by rejecting. *)

MaxEffects == 3

Documents == {"a.pdf", "b.pdf"}

EffectIds == 1..MaxEffects

\* lines 32-33: instance = null, cleanupSignatureDecorator undefined
NoEffect ==
    [pc |-> "none", document |-> "", instance |-> FALSE,
     cleanupSignatureDecorator |-> FALSE, cleaned |-> FALSE]

\* NutrientViewer.unload(container): the container is left empty
UnloadContainer(st) == [st EXCEPT !.container = 0]

\* lines 518-536: initializeSignatureDecorator subscribes its handler to
\* "annotations.create" on the instance of run k
initializeSignatureDecorator(st, k) ==
    [st EXCEPT !.subscribed = @ \cup {k}]

\* lines 533-535: the function initializeSignatureDecorator returned
cleanupSignatureDecorator(st, k) ==
    [st EXCEPT !.subscribed = @ \ {k}]

EffectInit ==
    /\ CleanupParked
    /\ cfg = Null /\ crv = Null /\ ovl = Null /\ rnd = Null /\ imp = Null
    /\ eff = [runs |-> [k \in EffectIds |-> NoEffect],
              container |-> 0,
              subscribed |-> {},
              errors |-> {}]

EffectRest == <<cleanup, cfg, crv, ovl, rnd, imp>>

\* the runs of the effect so far
Ran == {k \in EffectIds : eff.runs[k].pc # "none"}

\* lines 30-34, 231-241, 259: the effect runs for document d, the previous
\* run cleaned up; loadViewer calls unload and awaits it
RunEffect(d) ==
    /\ Cardinality(Ran) < MaxEffects
    /\ \A k \in Ran : eff.runs[k].cleaned
    /\ Ran # {} => eff.runs[Cardinality(Ran)].document # d
    /\ eff' = UnloadContainer(
                 [eff EXCEPT !.runs[Cardinality(Ran) + 1] =
                     [NoEffect EXCEPT !.pc = "unload", !.document = d]])
    /\ UNCHANGED EffectRest

\* lines 238-244: the awaited unload settles, either way; load is called
UnloadSettles(k) ==
    /\ eff.runs[k].pc = "unload"
    /\ eff' = [eff EXCEPT !.runs[k].pc = "load"]
    /\ UNCHANGED EffectRest

\* lines 244-252: NutrientViewer.load(config) resolves; the decorator is
\* initialised on the instance
LoadResolves(k) ==
    /\ eff.runs[k].pc = "load"
    /\ eff.container = 0
    /\ eff' = initializeSignatureDecorator(
                 [eff EXCEPT !.runs[k].pc = "ready",
                             !.runs[k].instance = TRUE,
                             !.runs[k].cleanupSignatureDecorator = TRUE,
                             !.container = k], k)
    /\ UNCHANGED EffectRest

\* lines 253-256: NutrientViewer.load(config) rejects; the error is logged
LoadRejects(k) ==
    /\ eff.runs[k].pc = "load"
    /\ eff' = [eff EXCEPT !.runs[k].pc = "failed", !.errors = @ \cup {k}]
    /\ UNCHANGED EffectRest

\* lines 264-275: the function the effect returned, run by React before the
\* next run of the effect or on unmount
EffectCleanup(k) ==
    /\ eff.runs[k].pc # "none"
    /\ ~eff.runs[k].cleaned
    /\ eff' = UnloadContainer(
                 [(IF eff.runs[k].cleanupSignatureDecorator
                   THEN cleanupSignatureDecorator(eff, k)
                   ELSE eff)
                  EXCEPT !.runs[k].cleaned = TRUE])
    /\ UNCHANGED EffectRest

EffectNext ==
    \/ \E d \in Documents : RunEffect(d)
    \/ \E k \in EffectIds :
          \/ UnloadSettles(k)
          \/ LoadResolves(k)
          \/ LoadRejects(k)
          \/ EffectCleanup(k)

EffectSpec == EffectInit /\ [][EffectNext]_vars

----------------------------------------------------------------------------
(* Properties *)

ErrorLog == "error: deleting widget/form field"
BenignLog == "info: form field already deleted"

\* the call for a is past its matching and still holds the lists it fetched
Matched(a) == task[a].pc \in {"deleteWidget", "deleteFormField"}

DeleteIssued(a, x) ==
    \E i \in 1..Len(task[a].calls) :
        task[a].calls[i].op = "delete" /\ task[a].calls[i].arg = x

Before(s, x, y) ==
    \E i, j \in 1..Len(s) : i < j /\ s[i] = x /\ s[j] = y

\* the widgets of a fetched list that carry the created annotation's name
NamedLike(a, all) ==
    {w \in Range(all) : /\ Annotation(w).kind = "widget"
                        /\ Annotation(w).formFieldName =
                              Annotation(a).formFieldName}

\* C1: when the created annotation carries a formFieldName and the fetched
\* page holds a widget of that name, the widget chosen for deletion is one
\* of that name and strategy 2 is not consulted, whatever other widgets
\* overlap the annotation.
C1_Strategy1Wins ==
    \A a \in Created :
        (/\ Matched(a)
         /\ Truthy(Annotation(a).formFieldName)
         /\ NamedLike(a, task[a].allAnnotations) # {})
        => /\ task[a].widgetToDelete \in NamedLike(a, task[a].allAnnotations)
           /\ ~task[a].strategy2

\* the exact match is chosen although a signature widget of another name,
\* touching the annotation, comes first on the page
C1_Witness ==
    /\ task["s1"].pc = "deleteWidget"
    /\ task["s1"].widgetToDelete = "w1"
    /\ Before(task["s1"].allAnnotations, "w2", "w1")
    /\ "f2" \in Range(task["s1"].formFields)
    /\ isSignatureField("f2", DEFAULT_CONFIG)

\* the closed intervals lo1..hi1 and lo2..hi2 share a point
Intersect(lo1, hi1, lo2, hi2) == \E x \in lo1..hi1 : x \in lo2..hi2

\* positions in a fetched list of the widgets that lie over the annotation
\* and whose name is that of a signature field among ffs
Candidates(a, all, ffs) ==
    {i \in 1..Len(all) :
        LET w == Annotation(all[i])
            s == Annotation(a)
        IN /\ w.kind = "widget"
           /\ Intersect(s.boundingBox.left,
                        s.boundingBox.left + s.boundingBox.width,
                        w.boundingBox.left,
                        w.boundingBox.left + w.boundingBox.width)
           /\ Intersect(s.boundingBox.top,
                        s.boundingBox.top + s.boundingBox.height,
                        w.boundingBox.top,
                        w.boundingBox.top + w.boundingBox.height)
           /\ \E f \in Range(ffs) : /\ FormField(f).name = w.formFieldName
                                    /\ isSignatureField(f, DEFAULT_CONFIG)}

\* C2: when strategy 1 selects no widget, the widget selected is the first
\* one of the fetched list that overlaps the annotation and is backed by a
\* signature field, the field selected is that widget's field, and with no
\* such widget none is selected.
C2_Strategy2First ==
    [][\A a \in Created :
          (/\ task[a].pc = "getFormFields"
           /\ \/ Matched(a)'
              \/ "warn: no widget" \in task'[a].logs
           /\ NamedLike(a, task[a].allAnnotations) = {}
                 \/ ~Truthy(Annotation(a).formFieldName))
          => LET all == task[a].allAnnotations
                 c == Candidates(a, all, fields)
             IN IF c = {}
                THEN task'[a].widgetToDelete = Null
                ELSE LET i == CHOOSE i \in c : \A j \in c : i <= j
                     IN /\ task'[a].widgetToDelete = all[i]
                        /\ task'[a].formFieldToDelete \in FieldIds
                        /\ FormField(task'[a].formFieldToDelete).name =
                              Annotation(all[i]).formFieldName]_vars

\* strategy 2 chose w2 after passing over the text widget w3 listed first
C2_Witness ==
    /\ task["s2"].pc = "deleteWidget"
    /\ task["s2"].by = 2
    /\ task["s2"].widgetToDelete = "w2"
    /\ task["s2"].allAnnotations[1] = "w3"

PairMatched(a) ==
    /\ task[a].pc = "end"
    /\ task[a].widgetToDelete # Null
    /\ task[a].formFieldToDelete # Null

PairGone(a) ==
    /\ task[a].widgetToDelete \notin Range(annots)
    /\ task[a].formFieldToDelete \notin Range(fields)

C4_FieldFailureLogs ==
    \A a \in Created :
        /\ task[a].fieldFailure = "absent"
              => BenignLog \in task[a].logs /\ ErrorLog \notin task[a].logs
        /\ task[a].fieldFailure = "other"
              => ErrorLog \in task[a].logs /\ BenignLog \notin task[a].logs

C4_Witness ==
    \E a, b \in Created :
        /\ task[a].pc = "end" /\ task[a].fieldFailure = "absent"
        /\ task[b].pc = "end" /\ task[b].fieldFailure = "other"

\* C5: the handler's promise never rejects, whichever host calls fail.
C5_NeverRejects ==
    /\ \A h \in Events : handler[h].state # "rejected"
    /\ \A a \in Created : task[a].pc # "threw"

\* a handler ran to its end over a failed delete and a failed fetch
C5_Witness ==
    \E h \in Events : \E a, b \in Range(handler[h].batch) :
        /\ handler[h].state = "done"
        /\ ErrorLog \in task[a].logs
        /\ task[a].widgetFailure # "none" \/ task[a].fieldFailure = "other"
        /\ ErrorLog \in task[b].logs
        /\ Len(task[b].calls) <= 3

\* C6: once the cleanup of a qualifying annotation is over, failed or not,
\* the next qualifying annotation of the batch has its cleanup started.
C6_LaterCleanupsRun ==
    \A h \in Events : \A j, k \in 1..Len(handler[h].batch) :
        LET b == handler[h].batch
        IN (/\ j < k
            /\ Qualifies(b[j]) /\ Qualifies(b[k])
            /\ \A m \in (j + 1)..(k - 1) : ~Qualifies(b[m])
            /\ ~Active(task[b[j]]) /\ task[b[j]].pc # "none")
           => /\ task[b[k]].pc # "none"
              /\ task[b[k]].calls[1].op = "setTimeout"

\* the first cleanup of a batch failed, the second deleted its widget
C6_Witness ==
    \E h \in Events :
        /\ Len(handler[h].batch) = 2
        /\ ErrorLog \in task[handler[h].batch[1]].logs
        /\ "deleted widget" \in task[handler[h].batch[2]].logs

\* C7: within a batch no step of a cleanup starts before the cleanups of
\* the qualifying annotations ahead of it have finished.
C7_Sequential ==
    \A h \in Events : \A j, k \in 1..Len(handler[h].batch) :
        LET b == handler[h].batch
        IN (j < k /\ Qualifies(b[j]) /\ task[b[k]].pc # "none")
           => task[b[j]].pc = "end"

C7_Witness ==
    \E h \in Events :
        /\ Len(handler[h].batch) = 2
        /\ Len(task[handler[h].batch[1]].calls) = 5
        /\ task[handler[h].batch[1]].pc = "end"
        /\ Active(task[handler[h].batch[2]])

\* no call of handleSignatureCreation is unsettled and no handler suspended
Quiescent ==
    /\ \A a \in Created : task[a].pc \in {"none", "end"}
    /\ \A h \in Events : handler[h].state \in {"idle", "done"}

\* C8: after teardown no delivered event starts a handler, and every
\* cleanup in flight at teardown, with the rest of its batch, still runs
\* to its end.
C8_Teardown ==
    /\ [][tornDown =>
            \A h \in Events :
                handler[h].state = "idle" => handler'[h].state = "idle"]_vars
    /\ [][~tornDown /\ tornDown' => task' = task /\ handler' = handler]_vars
    /\ tornDown ~> Quiescent

\* torn down while a cleanup waits for its settle delay, with an event
\* slot still unused
C8_Witness ==
    /\ tornDown
    /\ \E a \in Created : task[a].pc = "delay"
    /\ \E h \in Events : handler[h].state = "idle"

C10_FetchBeforeEachDelete ==
    \A a \in Created : \A i \in 1..Len(task[a].calls) :
        task[a].calls[i].op = "delete"
        => i > 1 /\ task[a].calls[i - 1].op = "getFormFields"

\* C10 amended: a cleanup fetches the two lists once, after the settle
\* delay and before its first delete call; the widget delete comes right
\* after the fetch, and the form-field delete right after the fetch or
\* right after the widget delete, with no fetch in between.
C10_OneFetchBeforeDeletes ==
    \A a \in Created :
        LET c == task[a].calls
        IN \A i \in 1..Len(c) :
              /\ c[i].op = "getAnnotations" => i = 2
              /\ c[i].op = "getFormFields" => i = 3
              /\ c[i].op = "delete" =>
                    /\ c[2].op = "getAnnotations" /\ c[3].op = "getFormFields"
                    /\ \/ i = 4
                       \/ /\ i = 5
                          /\ c[4].op = "delete"
                          /\ c[4].arg = task[a].widgetToDelete
                          /\ c[5].arg = task[a].formFieldToDelete

C10_Witness ==
    \E a \in Created :
        /\ Len(task[a].calls) = 5
        /\ task[a].calls[4].op = "delete"
        /\ task[a].calls[5].op = "delete"

\* position of a host call in the order of lines 366-439
StepRank(c) ==
    CASE c.op = "setTimeout" -> 0
      [] c.op = "getAnnotations" -> 1
      [] c.op = "getFormFields" -> 2
      [] c.op = "delete" /\ c.arg \in FieldIds -> 4
      [] OTHER -> 3

\* C11: every cleanup starts with the settle delay of 100 ms and makes no
\* host call until the delay has elapsed; its calls then come in the order
\* delay, fetch annotations, fetch form fields, delete widget, delete form
\* field, each at most once.
C11_DelayThenOrderedSteps ==
    \A a \in Created :
        task[a].pc # "none" =>
            LET c == task[a].calls
            IN /\ Len(c) >= 1
               /\ c[1].op = "setTimeout"
               /\ c[1].arg = SettleDelay
               /\ (task[a].pc = "delay") <=> (Len(c) = 1)
               /\ \A i, j \in 1..Len(c) :
                     i < j => StepRank(c[i]) < StepRank(c[j])

\* a cleanup that went through all five steps
C11_Witness ==
    \E a \in Created :
        /\ task[a].pc = "end"
        /\ Len(task[a].calls) = 5
        /\ task[a].calls[2].op = "getAnnotations"
        /\ task[a].calls[5].arg = task[a].formFieldToDelete
        /\ "deleted widget" \in task[a].logs
        /\ "deleted form field" \in task[a].logs

\* neither strategy has a target for a in the state of the host: no widget
\* of a's page carries its name, no field carries its name, and no widget
\* of the page lies over it with a signature field behind
NoTarget(a) ==
    /\ \/ ~Truthy(Annotation(a).formFieldName)
       \/ /\ NamedLike(a, task[a].allAnnotations) = {}
          /\ \A f \in Range(fields) :
                FormField(f).name # Annotation(a).formFieldName
    /\ Candidates(a, task[a].allAnnotations, fields) = {}

\* C12: when the form fields arrive and neither strategy has a target, the
\* cleanup ends at once with the warning logged, no error logged and no
\* delete call issued, and the host's annotations and form fields are as
\* they were.
C12_NoTargetNoDelete ==
    [][\A a \in Created :
          (/\ task[a].pc = "getFormFields"
           /\ \/ Matched(a)'
              \/ "warn: no widget" \in task'[a].logs
           /\ NoTarget(a))
          => /\ task'[a].pc = "end"
             /\ "warn: no widget" \in task'[a].logs
             /\ ErrorLog \notin task'[a].logs
             /\ \A i \in 1..Len(task'[a].calls) :
                   task'[a].calls[i].op # "delete"
             /\ annots' = annots
             /\ fields' = fields]_vars

\* a cleanup that found neither a widget nor a field and ended after the
\* two fetches
C12_Witness ==
    \E a \in Created :
        /\ task[a].pc = "end"
        /\ task[a].widgetToDelete = Null
        /\ task[a].formFieldToDelete = Null
        /\ "warn: no widget" \in task[a].logs
        /\ Len(task[a].calls) = 3

\* C13: an annotation of a batch that is neither ink nor image, be it a
\* widget or an annotation flagged isSignature, gets no cleanup: no delay
\* is started and no host call is made for it, and a handler whose batch
\* holds no ink or image annotation ends without touching the host.
C13_OthersIgnored ==
    /\ [](\A a \in Created :
            Annotation(a).kind \notin {"ink", "image"} => task[a] = NoTask)
    /\ [][\A h \in Events :
            (/\ handler[h].state = "idle"
             /\ handler'[h].state # "idle"
             /\ \A a \in Range(handler'[h].batch) :
                   Annotation(a).kind \notin {"ink", "image"})
            => /\ handler'[h].state = "done"
               /\ task' = task
               /\ fields' = fields
               /\ annots' = annots \o handler'[h].batch]_vars

\* a batch of the flagged text annotation and an ink annotation was handled:
\* the ink annotation got its cleanup, the flagged one none
C13_Witness ==
    \E h \in Events : \E a \in Created :
        /\ handler[h].state = "done"
        /\ handler[h].batch = <<"t1", a>>
        /\ Annotation(a).kind = "ink"
        /\ task[a].pc = "end"
        /\ "deleted widget" \in task[a].logs
        /\ task["t1"] = NoTask

\* leaf p of DEFAULT_CONFIG is there in configuration c
Defined(c, p) ==
    /\ p[1] \in DOMAIN c
    /\ p[2] \in DOMAIN c[p[1]]
    /\ Len(p) = 3 => p[3] \in DOMAIN c[p[1]][p[2]]

\* C14: whatever leaves a custom configuration sets, the configuration
\* createSignatureRenderer and initializeSignatureDecorator work with has
\* every leaf of DEFAULT_CONFIG.
C14_EveryLeafDefined ==
    \A p \in Leaves : Defined(cfg.config, p)

\* C16: two boxes overlap exactly when their horizontal extents share a
\* point and their vertical extents share a point, the end points
\* included, so that boxes touching along an edge or at a corner overlap;
\* the answer does not depend on the order of the two boxes.
C16_OverlapInclusiveSymmetric ==
    ovl.stage = "answered" =>
        /\ ovl.ab <=>
              /\ Intersect(ovl.a.left, ovl.a.left + ovl.a.width,
                           ovl.b.left, ovl.b.left + ovl.b.width)
              /\ Intersect(ovl.a.top, ovl.a.top + ovl.a.height,
                           ovl.b.top, ovl.b.top + ovl.b.height)
        /\ ovl.ab <=> ovl.ba

\* two boxes of positive size that meet at one corner only, found to
\* overlap
C16_Witness ==
    /\ ovl.stage = "answered"
    /\ ovl.ab
    /\ ovl.a.width > 0 /\ ovl.a.height > 0
    /\ ovl.b.width > 0 /\ ovl.b.height > 0
    /\ ovl.a.left + ovl.a.width = ovl.b.left
    /\ ovl.a.top + ovl.a.height = ovl.b.top

\* the smaller of two integers
Least(m, n) == IF m <= n THEN m ELSE n

\* C15: the top curve of a signature w pixels wide is min(w *
\* topLengthRatio, topLengthMax) long and the bottom curve min(w *
\* bottomLengthRatio, bottomLengthMax); neither gets shorter when the
\* signature gets wider, and each stays at its cap once it is reached:
\* with the defaults a signature 200 pixels wide has a top curve of 50.
\* (Lengths are in hundredths of a pixel.)
C15_CurveLengthCapped ==
    crv.stage = "built" =>
        LET c == crv.config.curve
        IN /\ ~crv.top.nan /\ ~crv.bottom.nan
           /\ crv.top.v =
                 Least(crv.width * c.topLengthRatio, c.topLengthMax * 100)
           /\ crv.bottom.v =
                 Least(crv.width * c.bottomLengthRatio,
                       c.bottomLengthMax * 100)
           /\ crv.prevTop.v <= crv.top.v
           /\ crv.prevBottom.v <= crv.bottom.v
           /\ crv.prevTop.v = c.topLengthMax * 100
                 => crv.top.v = c.topLengthMax * 100
           /\ crv.prevBottom.v = c.bottomLengthMax * 100
                 => crv.bottom.v = c.bottomLengthMax * 100
           /\ (crv.config = DEFAULT_CONFIG /\ crv.width >= 200)
                 => crv.top.v = 5000 /\ crv.bottom.v = 7000

\* with the defaults the top curve reaches its cap of 50 at a width of
\* 200, coming from 49.75 at a width of 199
C15_Witness ==
    /\ crv.stage = "built"
    /\ crv.config = DEFAULT_CONFIG
    /\ crv.width = 200
    /\ crv.top = Whole(50)
    /\ crv.prevTop = Num(4975)

\* the value the annotation's custom data gives key k, whether the data is
\* a plain object or an immutable map
Carried(a, k) ==
    IF a.customData.type = "object" /\ k \in DOMAIN a.customData.data
    THEN a.customData.data[k]
    ELSE Undef

\* a name is provided when it is a string that is not empty
Provided(v) == v.type = "string" /\ v.s # EmptyStr

\* C17: the top label of an overlay reads "By " followed by the signer
\* name: the annotation's customData.signerName if one is provided (a
\* non-empty string), otherwise the loggedInUser option if one is
\* provided, otherwise the configured default.  With custom data naming
\* Bob and Alice logged in it reads "By Bob"; with no custom data and
\* Alice logged in it reads "By Alice".
C17_SignerPrecedence ==
    (rnd.stage = "called" /\ rnd.result.outcome = "overlay") =>
        LET own == Carried(rnd.annotation, "signerName")
            name == IF Provided(own) THEN own.s
                    ELSE IF Provided(rnd.loggedInUser)
                         THEN rnd.loggedInUser.s
                    ELSE rnd.config.defaults.signerName
        IN /\ rnd.result.topText = <<"By ">> \o name
           /\ (own = Str(<<"Bob">>) /\ rnd.loggedInUser = Str(<<"Alice">>))
                 => rnd.result.topText = <<"By ", "Bob">>
           /\ (rnd.annotation.customData = Undef
               /\ rnd.loggedInUser = Str(<<"Alice">>))
                 => rnd.result.topText = <<"By ", "Alice">>

\* an immutable map names Bob while Alice is logged in: the label reads
\* "By Bob"
C17_Witness ==
    /\ rnd.stage = "called"
    /\ rnd.annotation.customData = ImmutableMap([signerName |-> Str(<<"Bob">>)])
    /\ rnd.loggedInUser = Str(<<"Alice">>)
    /\ rnd.result.outcome = "overlay"
    /\ rnd.result.topText = <<"By ", "Bob">>

\* the annotation is ink or image, or is marked isSignature by its custom
\* data or by its own flag
Marked(a) ==
    \/ a.kind \in {"ink", "image"}
    \/ Carried(a, "isSignature") = Bool(TRUE)
    \/ a.isSignature = Bool(TRUE)

\* C18: the renderer returns null, having built nothing, exactly for the
\* annotations that are neither ink nor image nor marked isSignature by
\* custom data or flag; it returns an overlay only for the others, and
\* for every one of them that has a bounding box.
C18_OverlayIffMarked ==
    rnd.stage = "called" =>
        /\ (rnd.result.outcome = "null") <=> ~Marked(rnd.annotation)
        /\ rnd.result.outcome = "null" => rnd.result = Nothing("null")
        /\ rnd.result.outcome = "overlay" => Marked(rnd.annotation)
        /\ (Marked(rnd.annotation)
            /\ rnd.annotation.boundingBox.type = "object")
              => rnd.result.outcome = "overlay" /\ rnd.result.elements = 6

\* a text annotation with no custom data and the isSignature flag set gets
\* an overlay
C18_Witness ==
    /\ rnd.stage = "called"
    /\ rnd.annotation.kind = "other"
    /\ rnd.annotation.customData = Undef
    /\ rnd.annotation.isSignature = Bool(TRUE)
    /\ rnd.result.outcome = "overlay"

\* a width or height that is a number counts as given; anything else
\* counts as zero
OrZero(v) == IF v.type = "number" /\ ~v.n.nan THEN v.n ELSE Whole(0)

\* C19: the renderer has no error outcome: for an ink, image or marked
\* annotation whose bounding box, width or height is missing or not a
\* number the missing measure is taken as zero, so that with no width the
\* curves are 0 long and the overlay is max(0 * 0.4, 80) wide, and with
\* no height it is 0 + 50 high; nothing is thrown.
C19_MissingGeometryIsZero ==
    (rnd.stage = "called" /\ Marked(rnd.annotation)) =>
        LET bb == rnd.annotation.boundingBox
            w == IF bb.type = "object" THEN OrZero(bb.width) ELSE Whole(0)
            h == IF bb.type = "object" THEN OrZero(bb.height) ELSE Whole(0)
        IN /\ rnd.result.outcome = "overlay"
           /\ rnd.result.svgWidth = MathMax(Times(w, 40), Whole(80))
           /\ rnd.result.svgHeight = Plus(h, 50)
           /\ rnd.result.topLength =
                 MathMin(Times(w, rnd.config.curve.topLengthRatio),
                         Whole(rnd.config.curve.topLengthMax))
           /\ rnd.result.bottomLength =
                 MathMin(Times(w, rnd.config.curve.bottomLengthRatio),
                         Whole(rnd.config.curve.bottomLengthMax))

\* C20: at most one handleDocumentImport is in flight at a time, and the
\* import button is disabled as long as one is in flight.
C20_OneImportButtonDisabled ==
    LET flying == {i \in ImportIds : InFlight(imp.imports[i])}
    IN /\ Cardinality(flying) <= 1
       /\ flying # {} => imp.button.disabled

\* the import UI at rest: overlay hidden, button enabled under its own title
ImportUiRestored ==
    /\ imp.overlay.display = "none"
    /\ ~imp.button.disabled
    /\ imp.button.title = TitleIdle

\* C21: every import that is started leads to a state in which it has
\* ended, the loading overlay is hidden and the import button is enabled
\* with the title "Import Documents", whichever of the promises it awaits
\* resolve or reject.
C21_ImportEndsRestored ==
    \A i \in ImportIds :
        InFlight(imp.imports[i])
        ~> (~InFlight(imp.imports[i]) /\ ImportUiRestored)

\* one import ended after a failed conversion and one after a successful
\* one whose timer has fired, and the UI is at rest
C21_Witness ==
    /\ ImportUiRestored
    /\ imp.timers = {}
    /\ \E i, j \in ImportIds :
          /\ imp.imports[i].pc = "failed"
          /\ imp.imports[i].container = "removed"
          /\ imp.imports[j].pc = "done"
          /\ imp.imports[j].headless = "unloaded"

\* the call of convertToPDF made by import i has settled
ConversionSettled(i) ==
    /\ imp.imports[i].pc \in {"applyOperations", "done", "failed"}
    /\ requiresConversion(imp.imports[i].file)

\* C22: once convertToPDF has settled, with its file or with the failure
\* of the load, of exportPDF or of unload, its temporary container is no
\* longer in the document and no headless instance it loaded is still
\* loaded.
C22_ConversionCleansUp ==
    \A i \in ImportIds :
        ConversionSettled(i) =>
            /\ imp.imports[i].container # "attached"
            /\ imp.imports[i].headless # "loaded"

\* call i of cleanup a is the delete of a form field
FieldDeleteAt(a, i) ==
    /\ task[a].calls[i].op = "delete"
    /\ task[a].calls[i].arg \in FieldIds

\* before call i, cleanup a issued the delete of a widget annotation that
\* carries the name of the form field call i deletes
WidgetOfFieldDeletedBefore(a, i) ==
    \E j \in 1..(i - 1) :
        /\ task[a].calls[j].op = "delete"
        /\ task[a].calls[j].arg \in AnnotationIds
        /\ Annotation(task[a].calls[j].arg).kind = "widget"
        /\ Annotation(task[a].calls[j].arg).formFieldName =
              FormField(task[a].calls[i].arg).name

\* C23 as stated: a cleanup that issues the delete of a form field named F
\* has issued before it the delete of a widget annotation whose
\* formFieldName is F.
C23_FieldOnlyWithWidget ==
    \A a \in Created : \A i \in 1..Len(task[a].calls) :
        FieldDeleteAt(a, i) => WidgetOfFieldDeletedBefore(a, i)

\* C23 amended: a cleanup that issues the delete of a form field named F
\* has issued before it the delete of a widget annotation whose
\* formFieldName is F, or it has found no widget, has issued no delete
\* before, and F is the formFieldName of the created annotation itself.
C23_FieldWithWidgetOrOwnName ==
    \A a \in Created : \A i \in 1..Len(task[a].calls) :
        FieldDeleteAt(a, i) =>
            \/ WidgetOfFieldDeletedBefore(a, i)
            \/ /\ task[a].widgetToDelete = Null
               /\ \A j \in 1..(i - 1) : task[a].calls[j].op # "delete"
               /\ FormField(task[a].calls[i].arg).name =
                     Annotation(a).formFieldName

\* strategy 2 chose a widget by overlap, and the cleanup deleted the widget
\* and then the field of the widget's name
C23_Witness ==
    \E a \in Created :
        /\ task[a].by = 2
        /\ Len(task[a].calls) = 5
        /\ FieldDeleteAt(a, 5)
        /\ WidgetOfFieldDeletedBefore(a, 5)
        /\ ~Truthy(Annotation(a).formFieldName)

\* the positions of cleanup a's delete calls whose target is in set S
DeletesOf(a, S) ==
    {i \in 1..Len(task[a].calls) :
        task[a].calls[i].op = "delete" /\ task[a].calls[i].arg \in S}

\* C24: a cleanup issues at most one delete call for an annotation and at
\* most one for a form field, and no other delete call; the annotation it
\* deletes is a widget annotation of the page list it fetched, never the
\* created annotation itself nor any other annotation that is not a
\* widget.
C24_OneWidgetOneField ==
    /\ [](\A a \in Created :
            /\ Cardinality(DeletesOf(a, AnnotationIds)) <= 1
            /\ Cardinality(DeletesOf(a, FieldIds)) <= 1
            /\ DeletesOf(a, AnnotationIds \cup FieldIds \cup {Null})
                  = DeletesOf(a, AnnotationIds \cup FieldIds)
            /\ \A i \in DeletesOf(a, AnnotationIds) :
                  /\ Annotation(task[a].calls[i].arg).kind = "widget"
                  /\ task[a].calls[i].arg # a)
    /\ [][\A a \in Created :
            (task[a].pc = "getFormFields" /\ task'[a].pc = "deleteWidget")
            => /\ task'[a].widgetToDelete \in Range(task[a].allAnnotations)
               /\ task'[a].calls[Len(task'[a].calls)] =
                     [op |-> "delete", arg |-> task'[a].widgetToDelete]]_vars

\* the fetched page list holds the created annotation and the flagged text
\* annotation next to the widgets, and the widget is the one deleted
C24_Witness ==
    \E a \in Created :
        /\ task[a].pc = "deleteWidget"
        /\ a \in Range(task[a].allAnnotations)
        /\ "t1" \in Range(task[a].allAnnotations)
        /\ Annotation(task[a].widgetToDelete).kind = "widget"
        /\ DeletesOf(a, AnnotationIds) = {4}

\* the widgets and form fields a cleanup can target
Targets == Widgets \cup FieldIds

\* cleanup a deleted target x: its delete call for x resolved
Deleted(a, x) ==
    /\ DeleteIssued(a, x)
    /\ IF x \in FieldIds
       THEN "deleted form field" \in task[a].logs
       ELSE "deleted widget" \in task[a].logs

\* the host rejected the delete call cleanup a issued for target x
DeleteRejected(a, x) ==
    /\ DeleteIssued(a, x)
    /\ IF x \in FieldIds
       THEN task[a].fieldFailure # "none"
       ELSE task[a].widgetFailure # "none"

\* a and b are of one batch, a before b
SameBatchBefore(a, b) ==
    \E h \in Events : \E i, j \in 1..Len(handler[h].batch) :
        i < j /\ handler[h].batch[i] = a /\ handler[h].batch[j] = b

\* C25 as stated: no widget annotation and no form field is the target of
\* more than one delete call.
C25_NoTargetTwice ==
    \A x \in Targets : \A a, b \in Created :
        (DeleteIssued(a, x) /\ DeleteIssued(b, x)) => a = b

\* C25 amended: cleanups of one batch do not target the same widget or
\* form field unless the host rejected the earlier delete; cleanups of
\* different events can target the same one, and then at most one of the
\* delete calls resolves.
C25_NoTargetDeletedTwice ==
    \A x \in Targets : \A a, b \in Created :
        (a # b /\ DeleteIssued(a, x) /\ DeleteIssued(b, x)) =>
            /\ ~(Deleted(a, x) /\ Deleted(b, x))
            /\ SameBatchBefore(a, b) => DeleteRejected(a, x)

\* two cleanups of different events went for the same widget: one deleted
\* it, the other was told it is gone, and both have ended
C25_Witness ==
    \E a, b \in Created : \E x \in Widgets :
        /\ ~SameBatchBefore(a, b) /\ ~SameBatchBefore(b, a)
        /\ Deleted(a, x)
        /\ DeleteIssued(b, x)
        /\ task[b].widgetFailure = "absent"
        /\ task[a].pc = "end" /\ task[b].pc = "end"

\* run k of the effect is over: its cleanup ran and its loadViewer returned
EffectFinished(k) ==
    /\ eff.runs[k].cleaned
    /\ eff.runs[k].pc \in {"ready", "failed"}

\* C26: once the cleanup of a run of the effect and its loadViewer have both
\* finished, in whichever order, the listener that run subscribed is no
\* longer subscribed and the instance that run loaded is no longer loaded
\* in the container.
C26_EffectLeavesNothing ==
    \A k \in EffectIds :
        EffectFinished(k) => (k \notin eff.subscribed /\ eff.container # k)

====
